---- MODULE Spec2Model ----
(***************************************************************************)
(* QR code / barcode generation service (src/main.py).                     *)
(*                                                                         *)
(* Python strings that the code inspects character by character (the       *)
(* `content` and `type` query parameters) are sequences of Unicode code    *)
(* points.  Message texts that the code only builds and passes on are      *)
(* sequences of text fragments: an f-string is the sequence of its         *)
(* non-empty pieces, the empty string is << >>.                            *)
(***************************************************************************)
EXTENDS Integers, Sequences, FiniteSets, TLC

VARIABLES
    allowed_order,  \* iteration order of the set config.ALLOWED_TYPES in this process
    route,          \* path of the request being handled
    args,           \* request.args: a function from parameter names to values
    pc,             \* position of the request in the service
    content,        \* generate_code: local `content`
    generate_type,  \* generate_code: local `generate_type`
    is_valid,       \* generate_code: local `is_valid`
    error_msg,      \* generate_code: local `error_msg`
    buf,            \* generate_code: local `buf` (the io.BytesIO image buffer)
    enc_calls,      \* encoder invocations made for the request, in order
    response,       \* response object under construction
    wire,           \* response sent to the caller for the request
    log,            \* records written through `logger` for the request
    resubmitted,    \* the request repeats the previous one with normalized parameters
    previous,       \* outcome of the previous /generate request
    v_content,      \* direct call validate_input(v_content, v_kind): argument
    v_kind,         \* direct call: argument
    v_called,       \* direct call: has returned
    v_result        \* direct call: returned tuple

vars == <<allowed_order, route, args, pc, content, generate_type, is_valid,
          error_msg, buf, enc_calls, response, wire, log, resubmitted, previous,
          v_content, v_kind, v_called, v_result>>

handler_vars == <<route, args, pc, content, generate_type, is_valid, error_msg,
                  buf, enc_calls, response, wire, log, resubmitted, previous>>

direct_vars == <<v_content, v_kind, v_called, v_result>>

----------------------------------------------------------------------------
\* Configuration (class Config).

MAX_CONTENT_LENGTH == 1000

BARCODE_MAX_LENGTH == 64

\* 'qrcode' and 'barcode' as code points.
qrcode == <<113, 114, 99, 111, 100, 101>>

barcode == <<98, 97, 114, 99, 111, 100, 101>>

ALLOWED_TYPES == {qrcode, barcode}

RATE_LIMIT == "100 per minute"

\* The text of an allowed type, as it appears in a message.
TypeText(t) == IF t = qrcode THEN "qrcode" ELSE "barcode"

\* A set of str has no fixed iteration order (str hashes are salted per
\* process): either order can be the one of a running process.
TypeOrders == {<<qrcode, barcode>>, <<barcode, qrcode>>}

----------------------------------------------------------------------------
\* Python built-ins the code calls.

Rep(c, n) == [i \in 1..n |-> c]

\* An f-string / str literal: its non-empty pieces.
Fmt(parts) == SelectSeq(parts, LAMBDA p : p # "")

\* sep.join(items) for a sequence of texts.
Join(sep, items) ==
    Fmt([i \in 1..(2 * Len(items) - 1) |->
            IF i % 2 = 1 THEN items[(i + 1) \div 2] ELSE sep])

\* str.isspace() of one character.
WhiteSpace ==
    {9, 10, 11, 12, 13, 28, 29, 30, 31, 32, 133, 160, 5760}
        \cup (8192..8202) \cup {8232, 8233, 8239, 8287, 12288}

IsSpace(c) == c \in WhiteSpace

\* str.strip(): drop the leading and the trailing whitespace characters.
Strip(s) ==
    LET n == Len(s)
        first == CHOOSE i \in 1..(n + 1) :
                    /\ (i = n + 1 \/ ~IsSpace(s[i]))
                    /\ \A j \in 1..(i - 1) : IsSpace(s[j])
        last == CHOOSE j \in 0..n :
                    /\ (j = 0 \/ ~IsSpace(s[j]))
                    /\ \A k \in (j + 1)..n : IsSpace(s[k])
    IN  IF first > last THEN << >> ELSE SubSeq(s, first, last)

\* str.lower() of one character (ASCII and Latin-1 letters; the other
\* characters of the inputs below have no case).
LowerChar(c) ==
    IF c \in 65..90 THEN c + 32
    ELSE IF c \in 192..222 /\ c # 215 THEN c + 32
    ELSE c

Lower(s) == [i \in 1..Len(s) |-> LowerChar(s[i])]

\* dict.get(key, default) on request.args.
Get(a, key, default) == IF key \in DOMAIN a THEN a[key] ELSE default

\* s[:n]
Prefix(s, n) == SubSeq(s, 1, IF Len(s) < n THEN Len(s) ELSE n)

\* len(s.encode('utf-8')): what a byte-counting length check would use.
Utf8Len(s) ==
    Len(s) + Cardinality({i \in 1..Len(s) : s[i] >= 128})
           + Cardinality({i \in 1..Len(s) : s[i] >= 2048})
           + Cardinality({i \in 1..Len(s) : s[i] >= 65536})

----------------------------------------------------------------------------
\* validate_input and its rejection reasons.

MissingContentReason == Fmt(<<"Missing 'content' parameter">>)

InvalidTypeReason(order) ==
    Fmt(<<"Invalid type. Must be one of: ">>)
        \o Join(", ", [i \in 1..Len(order) |-> TypeText(order[i])])

BarcodeLengthReason ==
    Fmt(<<"Barcode content exceeds maximum length of ",
          ToString(BARCODE_MAX_LENGTH), " characters">>)

BarcodeAsciiReason == Fmt(<<"Barcode content must contain only ASCII characters">>)

ContentLengthReason ==
    Fmt(<<"Content exceeds maximum length of ",
          ToString(MAX_CONTENT_LENGTH), " characters">>)

\* Variants of validate_input, each with one rule changed.

\* The type rule is applied before the content rule.
validate_input_type_first(c, t) ==
    IF t \notin ALLOWED_TYPES
    THEN <<FALSE, InvalidTypeReason(allowed_order)>>
    ELSE IF c = << >>
    THEN <<FALSE, MissingContentReason>>
    ELSE IF t = barcode
    THEN IF Len(c) > BARCODE_MAX_LENGTH
         THEN <<FALSE, BarcodeLengthReason>>
         ELSE IF ~(\A i \in 1..Len(c) : 0 <= c[i] /\ c[i] < 128)
         THEN <<FALSE, BarcodeAsciiReason>>
         ELSE <<TRUE, Fmt(<<"">>)>>
    ELSE IF Len(c) > MAX_CONTENT_LENGTH
         THEN <<FALSE, ContentLengthReason>>
         ELSE <<TRUE, Fmt(<<"">>)>>

\* The ASCII rule accepts code point 128.
validate_input_ascii_off_by_one(c, t) ==
    IF c = << >>
    THEN <<FALSE, MissingContentReason>>
    ELSE IF t \notin ALLOWED_TYPES
    THEN <<FALSE, InvalidTypeReason(allowed_order)>>
    ELSE IF t = barcode
    THEN IF Len(c) > BARCODE_MAX_LENGTH
         THEN <<FALSE, BarcodeLengthReason>>
         ELSE IF ~(\A i \in 1..Len(c) : 0 <= c[i] /\ c[i] <= 128)
         THEN <<FALSE, BarcodeAsciiReason>>
         ELSE <<TRUE, Fmt(<<"">>)>>
    ELSE IF Len(c) > MAX_CONTENT_LENGTH
         THEN <<FALSE, ContentLengthReason>>
         ELSE <<TRUE, Fmt(<<"">>)>>

\* The type rule compares the lower-cased type.
validate_input_type_any_case(c, t) ==
    IF c = << >>
    THEN <<FALSE, MissingContentReason>>
    ELSE IF Lower(t) \notin ALLOWED_TYPES
    THEN <<FALSE, InvalidTypeReason(allowed_order)>>
    ELSE IF Lower(t) = barcode
    THEN IF Len(c) > BARCODE_MAX_LENGTH
         THEN <<FALSE, BarcodeLengthReason>>
         ELSE IF ~(\A i \in 1..Len(c) : 0 <= c[i] /\ c[i] < 128)
         THEN <<FALSE, BarcodeAsciiReason>>
         ELSE <<TRUE, Fmt(<<"">>)>>
    ELSE IF Len(c) > MAX_CONTENT_LENGTH
         THEN <<FALSE, ContentLengthReason>>
         ELSE <<TRUE, Fmt(<<"">>)>>

\* The barcode length rule rejects a content of exactly the maximum length.
validate_input_barcode_ge(c, t) ==
    IF c = << >>
    THEN <<FALSE, MissingContentReason>>
    ELSE IF t \notin ALLOWED_TYPES
    THEN <<FALSE, InvalidTypeReason(allowed_order)>>
    ELSE IF t = barcode
    THEN IF Len(c) >= BARCODE_MAX_LENGTH
         THEN <<FALSE, BarcodeLengthReason>>
         ELSE IF ~(\A i \in 1..Len(c) : 0 <= c[i] /\ c[i] < 128)
         THEN <<FALSE, BarcodeAsciiReason>>
         ELSE <<TRUE, Fmt(<<"">>)>>
    ELSE IF Len(c) > MAX_CONTENT_LENGTH
         THEN <<FALSE, ContentLengthReason>>
         ELSE <<TRUE, Fmt(<<"">>)>>

\* The QR length rule counts UTF-8 bytes.
validate_input_qr_bytes(c, t) ==
    IF c = << >>
    THEN <<FALSE, MissingContentReason>>
    ELSE IF t \notin ALLOWED_TYPES
    THEN <<FALSE, InvalidTypeReason(allowed_order)>>
    ELSE IF t = barcode
    THEN IF Len(c) > BARCODE_MAX_LENGTH
         THEN <<FALSE, BarcodeLengthReason>>
         ELSE IF ~(\A i \in 1..Len(c) : 0 <= c[i] /\ c[i] < 128)
         THEN <<FALSE, BarcodeAsciiReason>>
         ELSE <<TRUE, Fmt(<<"">>)>>
    ELSE IF Utf8Len(c) > MAX_CONTENT_LENGTH
         THEN <<FALSE, ContentLengthReason>>
         ELSE <<TRUE, Fmt(<<"">>)>>

\* Success carries a message.
validate_input_ok_message(c, t) ==
    IF c = << >>
    THEN <<FALSE, MissingContentReason>>
    ELSE IF t \notin ALLOWED_TYPES
    THEN <<FALSE, InvalidTypeReason(allowed_order)>>
    ELSE IF t = barcode
    THEN IF Len(c) > BARCODE_MAX_LENGTH
         THEN <<FALSE, BarcodeLengthReason>>
         ELSE IF ~(\A i \in 1..Len(c) : 0 <= c[i] /\ c[i] < 128)
         THEN <<FALSE, BarcodeAsciiReason>>
         ELSE <<TRUE, Fmt(<<"OK">>)>>
    ELSE IF Len(c) > MAX_CONTENT_LENGTH
         THEN <<FALSE, ContentLengthReason>>
         ELSE <<TRUE, Fmt(<<"OK">>)>>

validate_input(c, t) ==
    IF c = << >>
    THEN <<FALSE, MissingContentReason>>
    ELSE IF t \notin ALLOWED_TYPES
    THEN <<FALSE, InvalidTypeReason(allowed_order)>>
    ELSE IF t = barcode
    THEN IF Len(c) > BARCODE_MAX_LENGTH
         THEN <<FALSE, BarcodeLengthReason>>
         ELSE IF ~(\A i \in 1..Len(c) : 0 <= c[i] /\ c[i] < 128)
         THEN <<FALSE, BarcodeAsciiReason>>
         ELSE <<TRUE, Fmt(<<"">>)>>
    ELSE IF Len(c) > MAX_CONTENT_LENGTH
         THEN <<FALSE, ContentLengthReason>>
         ELSE <<TRUE, Fmt(<<"">>)>>

----------------------------------------------------------------------------
\* Inputs.

\* Whitespace characters put before and after a content: 0..MaxPad each side.
MaxPad == 1

\* Lengths tried on each side of a length limit: limit - Slack - 1 .. limit + Slack.
Slack == 1

FillChar == 120

PadChar == 32

\* Characters put at the front or at the back of a content: NUL, US (a
\* control character that str.isspace() accepts), '-', 'A', DEL, U+0080,
\* U+00A0 (a non-ASCII whitespace) and U+4E16.
EdgeChars == {0, 31, 45, 65, 127, 128, 160, 19990}

Around(limit) == (limit - Slack - 1)..(limit + Slack)

FillLens == {0, 1} \cup Around(BARCODE_MAX_LENGTH) \cup Around(MAX_CONTENT_LENGTH)

Cores ==
    {Rep(FillChar, n) : n \in FillLens}
        \cup {<<c>> \o Rep(FillChar, n) : c \in EdgeChars, n \in FillLens}
        \cup {Rep(FillChar, n) \o <<c>> : c \in EdgeChars, n \in FillLens}

Contents ==
    {Rep(PadChar, a) \o core \o Rep(PadChar, b) :
        a \in 0..MaxPad, b \in 0..MaxPad, core \in Cores}

\* Values of the `type` parameter: qrcode, QRCODE, QRCode, barcode, BARCODE,
\* Barcode, invalid, 'qrcode ' and the empty string.
Types ==
    {qrcode, <<81, 82, 67, 79, 68, 69>>, <<81, 82, 67, 111, 100, 101>>,
     barcode, <<66, 65, 82, 67, 79, 68, 69>>, <<66, 97, 114, 99, 111, 100, 101>>,
     <<105, 110, 118, 97, 108, 105, 100>>, qrcode \o <<32>>, << >>}

----------------------------------------------------------------------------
\* Direct calls of validate_input (as the unit tests make them).

NoResponse == [status |-> 0, body |-> << >>, mimetype |-> "", headers |-> {}]

HandlerIdle ==
    /\ route = ""
    /\ args = << >>
    /\ pc = "idle"
    /\ content = << >>
    /\ generate_type = << >>
    /\ is_valid = FALSE
    /\ error_msg = << >>
    /\ buf = "none"
    /\ enc_calls = << >>
    /\ response = NoResponse
    /\ wire = NoResponse
    /\ log = << >>
    /\ resubmitted = FALSE
    /\ previous = << >>

InitDirect ==
    /\ allowed_order \in TypeOrders
    /\ HandlerIdle
    /\ v_content \in Contents
    /\ v_kind \in Types
    /\ v_called = FALSE
    /\ v_result = <<FALSE, << >>>>

CallValidate ==
    /\ ~v_called
    /\ v_result' = validate_input(v_content, v_kind)
    /\ v_called' = TRUE
    /\ UNCHANGED <<allowed_order, v_content, v_kind>>
    /\ UNCHANGED handler_vars

NextDirect == CallValidate

SpecDirect == InitDirect /\ [][NextDirect]_vars

----------------------------------------------------------------------------
\* The HTTP service: one request at a time through routing, the rate limiter,
\* the view function, after_request and the reply.

Routes == {"/generate", "/health", "/metrics", "/nonexistent"}

\* request.args of a request: any subset of the two parameters present.
ArgSets ==
    {[k \in dom |-> IF k = "content" THEN c ELSE t] :
        dom \in SUBSET {"content", "type"}, c \in Contents, t \in Types}

\* str(e) of an exception raised by an encoder library.
EncoderErrors == {"encoder fault"}

\* str(e) of an exception raised elsewhere in the view (buffer, send_file).
UnexpectedErrors == {"out of memory"}

SetHeader(h, name, value) == {p \in h : p[1] # name} \cup {<<name, value>>}

\* Flask's response for a view that returns (text, status).
TextResponse(body, status) ==
    [status |-> status, body |-> body, mimetype |-> "text/html",
     headers |-> {<<"Content-Type", "text/html; charset=utf-8">>}]

\* flask.jsonify(...)
JsonResponse(body) ==
    [status |-> 200, body |-> body, mimetype |-> "application/json",
     headers |-> {<<"Content-Type", "application/json">>}]

\* flask.send_file(buf, mimetype=...)
send_file(b, mimetype) ==
    [status |-> 200, body |-> <<b>>, mimetype |-> mimetype,
     headers |-> {<<"Content-Type", mimetype>>, <<"Cache-Control", "no-cache">>}]

\* add_security_headers without the Cache-Control header.
add_security_headers_no_cache_control(r) ==
    [r EXCEPT !.headers =
        SetHeader(SetHeader(SetHeader(SetHeader(@,
            "X-Content-Type-Options", "nosniff"),
            "X-Frame-Options", "DENY"),
            "X-XSS-Protection", "1; mode=block"),
            "Content-Security-Policy", "default-src 'none'; img-src 'self'")]

add_security_headers(r) ==
    [r EXCEPT !.headers =
        SetHeader(SetHeader(SetHeader(SetHeader(SetHeader(@,
            "X-Content-Type-Options", "nosniff"),
            "X-Frame-Options", "DENY"),
            "X-XSS-Protection", "1; mode=block"),
            "Content-Security-Policy", "default-src 'none'; img-src 'self'"),
            "Cache-Control", "no-store, no-cache, must-revalidate, max-age=0")]

\* after_request that adds the CORS headers to successful responses only.
after_request_success_only(r) ==
    IF r.status >= 400 THEN r
    ELSE [r EXCEPT !.headers =
            SetHeader(SetHeader(SetHeader(@,
                "Access-Control-Allow-Origin", "*"),
                "Access-Control-Allow-Methods", "GET, OPTIONS"),
                "Access-Control-Allow-Headers", "Content-Type")]

after_request(r) ==
    [r EXCEPT !.headers =
        SetHeader(SetHeader(SetHeader(@,
            "Access-Control-Allow-Origin", "*"),
            "Access-Control-Allow-Methods", "GET, OPTIONS"),
            "Access-Control-Allow-Headers", "Content-Type")]

LogRecord(level, text, values) == [level |-> level, text |-> text, values |-> values]

Init ==
    /\ allowed_order \in TypeOrders
    /\ HandlerIdle
    /\ v_content = << >>
    /\ v_kind = << >>
    /\ v_called = FALSE
    /\ v_result = <<FALSE, << >>>>

\* A request arrives; the locals of the view start unset.
Arrive(r, a) ==
    /\ route' = r
    /\ args' = a
    /\ pc' = "received"
    /\ content' = << >>
    /\ generate_type' = << >>
    /\ is_valid' = FALSE
    /\ error_msg' = << >>
    /\ buf' = "none"
    /\ enc_calls' = << >>
    /\ response' = NoResponse
    /\ wire' = NoResponse
    /\ log' = << >>
    /\ UNCHANGED allowed_order
    /\ UNCHANGED direct_vars

Request ==
    /\ pc = "idle"
    /\ \E r \in Routes, a \in ArgSets : Arrive(r, a)
    /\ resubmitted' = FALSE
    /\ previous' = << >>

\* What a /generate request came to: the response and the encoders called.
Outcome == [args |-> args, status |-> wire.status, body |-> wire.body,
            branch |-> [i \in 1..Len(enc_calls) |-> enc_calls[i].encoder]]

\* The caller sends the /generate request again with the content trimmed and
\* the type lower-cased (an absent type written out as qrcode).
Resubmit ==
    /\ pc = "sent"
    /\ route = "/generate"
    /\ wire.status # 429
    /\ ~resubmitted
    /\ Arrive("/generate",
              [k \in {"content", "type"} |->
                  IF k = "content" THEN Strip(Get(args, "content", << >>))
                  ELSE Lower(Get(args, "type", qrcode))])
    /\ resubmitted' = TRUE
    /\ previous' = Outcome

local_vars == <<content, generate_type, is_valid, error_msg, buf, enc_calls>>

request_vars == <<allowed_order, route, args, wire, resubmitted, previous>>

\* The view answers: Flask builds the response and after_request is next.
Respond(r) ==
    /\ response' = r
    /\ pc' = "after"

\* @limiter.limit("50 per minute") on /generate: the limiter refuses the
\* request and the 429 handler answers.
ratelimit_handler ==
    /\ pc = "received"
    /\ route = "/generate"
    /\ log' = Append(log, LogRecord("warning", Fmt(<<"Rate limit exceeded for ">>), << >>))
    /\ Respond(TextResponse(Fmt(<<"Rate limit exceeded. Please try again later.">>), 429))
    /\ UNCHANGED <<request_vars, local_vars, direct_vars>>

health_check ==
    /\ pc = "received"
    /\ route = "/health"
    /\ Respond(TextResponse(Fmt(<<"OK">>), 200))
    /\ UNCHANGED <<request_vars, local_vars, log, direct_vars>>

metrics ==
    /\ pc = "received"
    /\ route = "/metrics"
    /\ Respond(JsonResponse(
            <<"healthy", "0.0.5", ToString(MAX_CONTENT_LENGTH), RATE_LIMIT>>
                \o [i \in 1..Len(allowed_order) |-> TypeText(allowed_order[i])]))
    /\ UNCHANGED <<request_vars, local_vars, log, direct_vars>>

not_found ==
    /\ pc = "received"
    /\ route \notin {"/generate", "/health", "/metrics"}
    /\ log' = Append(log, LogRecord("warning", Fmt(<<"404 error: ", route>>), << >>))
    /\ Respond(TextResponse(
            Fmt(<<"Endpoint not found. Use /generate, /health, /metrics or /docs">>), 404))
    /\ UNCHANGED <<request_vars, local_vars, direct_vars>>

\* generate_code, lines 286-287, without the lower-casing of the type.
generate_parse_no_lower ==
    /\ pc = "received"
    /\ route = "/generate"
    /\ content' = Strip(Get(args, "content", << >>))
    /\ generate_type' = Get(args, "type", qrcode)
    /\ pc' = "parsed"
    /\ UNCHANGED <<request_vars, is_valid, error_msg, buf, enc_calls, response,
                   log, direct_vars>>

\* generate_code, lines 286-287: read and normalize the parameters.
generate_parse ==
    /\ pc = "received"
    /\ route = "/generate"
    /\ content' = Strip(Get(args, "content", << >>))
    /\ generate_type' = Lower(Get(args, "type", qrcode))
    /\ pc' = "parsed"
    /\ UNCHANGED <<request_vars, is_valid, error_msg, buf, enc_calls, response,
                   log, direct_vars>>

\* generate_code, lines 290-293, with the image buffer created before the
\* validation.
generate_validate_buffer_first ==
    /\ pc = "parsed"
    /\ buf' = "empty"
    /\ LET res == validate_input(content, generate_type) IN
        /\ is_valid' = res[1]
        /\ error_msg' = res[2]
        /\ IF ~res[1]
           THEN /\ log' = Append(log, LogRecord("warning",
                            Fmt(<<"Invalid input: ">>) \o res[2]
                                \o Fmt(<<" - content=", ", type=">>),
                            <<content, generate_type>>))
                /\ Respond(TextResponse(res[2], 400))
           ELSE /\ pc' = "buffered"
                /\ UNCHANGED <<response, log>>
    /\ UNCHANGED <<request_vars, content, generate_type, enc_calls, direct_vars>>

\* generate_code, lines 290-293: validate, and answer 400 on failure.
generate_validate ==
    /\ pc = "parsed"
    /\ LET res == validate_input(content, generate_type) IN
        /\ is_valid' = res[1]
        /\ error_msg' = res[2]
        /\ IF ~res[1]
           THEN /\ log' = Append(log, LogRecord("warning",
                            Fmt(<<"Invalid input: ">>) \o res[2]
                                \o Fmt(<<" - content=", ", type=">>),
                            <<content, generate_type>>))
                /\ Respond(TextResponse(res[2], 400))
           ELSE /\ pc' = "valid"
                /\ UNCHANGED <<response, log>>
    /\ UNCHANGED <<request_vars, content, generate_type, buf, enc_calls, direct_vars>>

\* generate_code, line 296: buf = io.BytesIO()
generate_buffer ==
    /\ pc = "valid"
    /\ buf' = "empty"
    /\ pc' = "buffered"
    /\ UNCHANGED <<request_vars, content, generate_type, is_valid, error_msg,
                   enc_calls, response, log, direct_vars>>

Call(encoder, raised, text) == [encoder |-> encoder, raised |-> raised, text |-> text]

\* generate_code, lines 298-316, with a second encode attempt after a failure.
generate_barcode_retry ==
    /\ pc = "buffered"
    /\ generate_type = barcode
    /\ \/ /\ enc_calls' = Append(enc_calls, Call("code128", FALSE, ""))
          /\ buf' = "code128 png"
          /\ log' = Append(log, LogRecord("info",
                        Fmt(<<"Generating barcode for content: ", "...">>),
                        <<Prefix(content, 20)>>))
          /\ pc' = "encoded"
          /\ UNCHANGED response
       \/ \E e \in EncoderErrors :
          /\ enc_calls' = enc_calls
                \o <<Call("code128", TRUE, e), Call("code128", TRUE, e)>>
          /\ log' = log
                \o <<LogRecord("info",
                        Fmt(<<"Generating barcode for content: ", "...">>),
                        <<Prefix(content, 20)>>),
                     LogRecord("error", Fmt(<<"Barcode generation failed: ", e>>), << >>)>>
          /\ Respond(TextResponse(Fmt(<<"Barcode generation error: ", e>>), 500))
          /\ UNCHANGED buf
    /\ UNCHANGED <<request_vars, content, generate_type, is_valid, error_msg, direct_vars>>

\* generate_code, lines 298-316: the Code128 branch.
generate_barcode ==
    /\ pc = "buffered"
    /\ generate_type = barcode
    /\ \/ /\ enc_calls' = Append(enc_calls, Call("code128", FALSE, ""))
          /\ buf' = "code128 png"
          /\ log' = Append(log, LogRecord("info",
                        Fmt(<<"Generating barcode for content: ", "...">>),
                        <<Prefix(content, 20)>>))
          /\ pc' = "encoded"
          /\ UNCHANGED response
       \/ \E e \in EncoderErrors :
          /\ enc_calls' = Append(enc_calls, Call("code128", TRUE, e))
          /\ log' = log
                \o <<LogRecord("info",
                        Fmt(<<"Generating barcode for content: ", "...">>),
                        <<Prefix(content, 20)>>),
                     LogRecord("error", Fmt(<<"Barcode generation failed: ", e>>), << >>)>>
          /\ Respond(TextResponse(Fmt(<<"Barcode generation error: ", e>>), 500))
          /\ UNCHANGED buf
    /\ UNCHANGED <<request_vars, content, generate_type, is_valid, error_msg, direct_vars>>

\* generate_code, lines 317-332: the QR branch.
generate_qrcode ==
    /\ pc = "buffered"
    /\ generate_type # barcode
    /\ \/ /\ enc_calls' = Append(enc_calls, Call("qr", FALSE, ""))
          /\ buf' = "qr png"
          /\ log' = Append(log, LogRecord("info",
                        Fmt(<<"Generating QR code for content: ", "...">>),
                        <<Prefix(content, 20)>>))
          /\ pc' = "encoded"
          /\ UNCHANGED response
       \/ \E e \in EncoderErrors :
          /\ enc_calls' = Append(enc_calls, Call("qr", TRUE, e))
          /\ log' = log
                \o <<LogRecord("info",
                        Fmt(<<"Generating QR code for content: ", "...">>),
                        <<Prefix(content, 20)>>),
                     LogRecord("error", Fmt(<<"QR code generation failed: ", e>>), << >>)>>
          /\ Respond(TextResponse(Fmt(<<"QR code generation error: ", e>>), 500))
          /\ UNCHANGED buf
    /\ UNCHANGED <<request_vars, content, generate_type, is_valid, error_msg, direct_vars>>

\* generate_code, lines 335-340: the image response with its security headers.
generate_send ==
    /\ pc = "encoded"
    /\ log' = Append(log, LogRecord("info",
                    Fmt(<<"Successfully generated ", TypeText(generate_type)>>), << >>))
    /\ Respond(add_security_headers(send_file(buf, "image/png")))
    /\ UNCHANGED <<request_vars, local_vars, direct_vars>>

\* generate_code, lines 342-344: an exception raised outside the two encoder
\* blocks (creating the buffer, building the response).
generate_unexpected ==
    /\ pc \in {"valid", "encoded"}
    /\ \E e \in UnexpectedErrors :
          log' = Append(log, LogRecord("error",
                    Fmt(<<"Unexpected error in generate_code: ", e>>), << >>))
    /\ Respond(TextResponse(Fmt(<<"Internal server error">>), 500))
    /\ UNCHANGED <<request_vars, local_vars, direct_vars>>

generate_code ==
    \/ generate_parse
    \/ generate_validate
    \/ generate_buffer
    \/ generate_barcode
    \/ generate_qrcode
    \/ generate_send
    \/ generate_unexpected

\* Flask runs after_request on the response and sends it.
Send ==
    /\ pc = "after"
    /\ wire' = after_request(response)
    /\ pc' = "sent"
    /\ UNCHANGED <<allowed_order, route, args, resubmitted, previous, response,
                   log, local_vars, direct_vars>>

\* The request is over: its context is dropped and the worker takes the next.
Finish ==
    /\ pc = "sent"
    /\ route' = ""
    /\ args' = << >>
    /\ pc' = "idle"
    /\ content' = << >>
    /\ generate_type' = << >>
    /\ is_valid' = FALSE
    /\ error_msg' = << >>
    /\ buf' = "none"
    /\ enc_calls' = << >>
    /\ response' = NoResponse
    /\ wire' = NoResponse
    /\ log' = << >>
    /\ resubmitted' = FALSE
    /\ previous' = << >>
    /\ UNCHANGED allowed_order
    /\ UNCHANGED direct_vars

Next ==
    \/ Request
    \/ Finish
    \/ Resubmit
    \/ ratelimit_handler
    \/ health_check
    \/ metrics
    \/ not_found
    \/ generate_code
    \/ Send

Spec == Init /\ [][Next]_vars

----------------------------------------------------------------------------
\* Properties of validate_input, over its direct calls (SpecDirect).

v_ok == v_result[1]

v_reason == v_result[2]

IsInvalidTypeReason(r) == \E order \in TypeOrders : r = InvalidTypeReason(order)

HasNonAscii(s) == \E i \in 1..Len(s) : s[i] >= 128

AllAscii(s) == \A i \in 1..Len(s) : s[i] \in 0..127

\* C1: validate_input returns the reason of the first failing rule, in the
\* order: empty content, unrecognized kind, barcode longer than 64, barcode
\* with a code point >= 128, QR content longer than 1000; an empty content
\* gives the missing-content reason for every kind.
C1_FirstFailingRule ==
    v_called =>
        /\ v_content = << >> =>
              ~v_ok /\ v_reason = <<"Missing 'content' parameter">>
        /\ (v_content # << >> /\ v_kind \notin {qrcode, barcode}) =>
              ~v_ok /\ IsInvalidTypeReason(v_reason)
        /\ (v_content # << >> /\ v_kind = barcode
                /\ Len(v_content) > 64) =>
              ~v_ok /\ v_reason = BarcodeLengthReason
        /\ (v_content # << >> /\ v_kind = barcode
                /\ Len(v_content) <= 64 /\ HasNonAscii(v_content)) =>
              ~v_ok /\ v_reason = BarcodeAsciiReason
        /\ (v_content # << >> /\ v_kind = qrcode
                /\ Len(v_content) > 1000) =>
              ~v_ok /\ v_reason = ContentLengthReason

C1_Witness ==
    /\ v_called
    /\ v_content = << >>
    /\ v_kind \notin ALLOWED_TYPES
    /\ v_reason = MissingContentReason

\* C2 (as claimed): every barcode content with a code point >= 128 is
\* rejected with the ASCII reason, whatever its length.
C2_AsciiReasonAnyLength ==
    (v_called /\ v_kind = barcode /\ HasNonAscii(v_content)) =>
        (~v_ok /\ v_reason = <<"Barcode content must contain only ASCII characters">>)

\* C2 (amended): a barcode content with a code point >= 128 is rejected with
\* the ASCII reason when it has at most 64 code points, and with the barcode
\* length reason when it has more.
C2_AsciiReasonWithinLength ==
    (v_called /\ v_kind = barcode /\ HasNonAscii(v_content)) =>
        /\ ~v_ok
        /\ Len(v_content) <= 64 =>
              v_reason = <<"Barcode content must contain only ASCII characters">>
        /\ Len(v_content) > 64 => v_reason = BarcodeLengthReason

C2_Witness ==
    /\ v_called
    /\ v_kind = barcode
    /\ HasNonAscii(v_content)
    /\ Len(v_content) = 64
    /\ v_reason = BarcodeAsciiReason

\* C3 (as claimed): every kind outside {qrcode, barcode} is rejected with the
\* invalid-type reason, for every content, the empty one included.
C3_InvalidTypeAnyContent ==
    (v_called /\ v_kind \notin {qrcode, barcode}) =>
        (~v_ok /\ IsInvalidTypeReason(v_reason))

\* C3 (amended): every kind outside {qrcode, barcode} is rejected with the
\* invalid-type reason for every non-empty content, of any length; for the
\* empty content the reason is the missing-content one.
C3_InvalidTypeNonEmptyContent ==
    (v_called /\ v_kind \notin {qrcode, barcode}) =>
        /\ ~v_ok
        /\ v_content # << >> => IsInvalidTypeReason(v_reason)
        /\ v_content = << >> => v_reason = MissingContentReason

C3_Witness ==
    /\ v_called
    /\ v_kind \notin {qrcode, barcode}
    /\ Len(v_content) > MAX_CONTENT_LENGTH
    /\ IsInvalidTypeReason(v_reason)

C7_QrLength ==
    (v_called /\ v_kind = qrcode /\ v_content # << >>) =>
        /\ Len(v_content) <= 1000 => (v_ok /\ v_reason = << >>)
        /\ Len(v_content) > 1000 =>
              /\ ~v_ok
              /\ v_reason = <<"Content exceeds maximum length of ",
                              "1000", " characters">>

C7_Witness ==
    /\ v_called
    /\ v_kind = qrcode
    /\ Len(v_content) = 1000
    /\ HasNonAscii(v_content)
    /\ v_ok

\* C10: the reason returned by validate_input is empty exactly when the input
\* is valid, and on failure it is one of the fixed rejection reasons.
C10_ReasonIffInvalid ==
    v_called =>
        /\ (v_reason = << >>) <=> v_ok
        /\ ~v_ok =>
              \/ v_reason = MissingContentReason
              \/ IsInvalidTypeReason(v_reason)
              \/ v_reason = BarcodeLengthReason
              \/ v_reason = BarcodeAsciiReason
              \/ v_reason = ContentLengthReason

C10_Witness ==
    /\ v_called
    /\ ~v_ok
    /\ v_kind = qrcode
    /\ v_reason = ContentLengthReason

----------------------------------------------------------------------------
\* Properties of the service (Spec).

\* The request was given to generate_code (the limiter let it through).
InGenerate ==
    /\ route = "/generate"
    /\ pc \notin {"idle", "received"}
    /\ response.status # 429

Answered == pc = "sent"

EncoderFailed == enc_calls # << >> /\ enc_calls[Len(enc_calls)].raised

\* C4 (as claimed): after an encoder failure the response has status 500 and a
\* generic body without the encoder's exception text, which is only logged.
C4_EncoderFailureBodyGeneric ==
    (Answered /\ InGenerate /\ EncoderFailed) =>
        LET e == enc_calls[Len(enc_calls)].text IN
        /\ wire.status = 500
        /\ \A i \in 1..Len(wire.body) : wire.body[i] # e
        /\ \E j \in 1..Len(log) :
              /\ log[j].level = "error"
              /\ \E i \in 1..Len(log[j].text) : log[j].text[i] = e

\* C5: a /generate request whose normalized (content, kind) fails
\* validate_input never gets a buffer or an encoder call, and is answered
\* with status 400 and the reason of validate_input as the body.
C5_InvalidFailsFast ==
    (InGenerate /\ ~validate_input(content, generate_type)[1]) =>
        /\ buf = "none"
        /\ enc_calls = << >>
        /\ pc \in {"parsed", "after", "sent"}
        /\ pc = "after" =>
              /\ response.status = 400
              /\ response.body = validate_input(content, generate_type)[2]
        /\ pc = "sent" =>
              /\ wire.status = 400
              /\ wire.body = validate_input(content, generate_type)[2]

C5_Witness ==
    /\ Answered
    /\ InGenerate
    /\ generate_type = barcode
    /\ wire.status = 400
    /\ wire.body = BarcodeAsciiReason
    /\ buf = "none"
    /\ enc_calls = << >>

CorsHeaders ==
    {<<"Access-Control-Allow-Origin", "*">>,
     <<"Access-Control-Allow-Methods", "GET, OPTIONS">>,
     <<"Access-Control-Allow-Headers", "Content-Type">>}

SecurityHeaders ==
    {<<"X-Content-Type-Options", "nosniff">>,
     <<"X-Frame-Options", "DENY">>,
     <<"X-XSS-Protection", "1; mode=block">>,
     <<"Content-Security-Policy", "default-src 'none'; img-src 'self'">>,
     <<"Cache-Control", "no-store, no-cache, must-revalidate, max-age=0">>}

\* The response gives each header of `hs` exactly the value in `hs`.
Carries(r, hs) == \A h \in hs : \A p \in r.headers : p[1] = h[1] => p = h

Present(r, hs) == hs \subseteq r.headers /\ Carries(r, hs)

\* C8: every response sent carries the three CORS headers, and every 200
\* response of /generate is image/png with the five security headers.
C8_ResponseHeaders ==
    Answered =>
        /\ Present(wire, CorsHeaders)
        /\ (route = "/generate" /\ wire.status = 200) =>
              /\ wire.mimetype = "image/png"
              /\ Present(wire, {<<"Content-Type", "image/png">>})
              /\ Present(wire, SecurityHeaders)

C8_Witness ==
    /\ Answered
    /\ route = "/generate"
    /\ wire.status = 200
    /\ wire.body = <<"code128 png">>
    /\ wire.mimetype = "image/png"
    /\ Present(wire, SecurityHeaders)
    /\ Present(wire, CorsHeaders)

\* C9: a /generate request comes to the same outcome as the request with the
\* content trimmed and the type lower-cased (qrcode when absent): both are
\* rejected with the same reason, or both are accepted and take the same
\* encoder branch; a whitespace-only content is rejected with status 400 and
\* the missing-content reason; an absent type takes the QR branch.
C9_SameAsNormalized ==
    (Answered /\ InGenerate) =>
        /\ resubmitted =>
              /\ (previous.status = 400) <=> (wire.status = 400)
              /\ wire.status = 400 => wire.body = previous.body
              /\ (previous.branch # << >> /\ Outcome.branch # << >>) =>
                    previous.branch = Outcome.branch
              /\ (previous.status = 200 /\ wire.status = 200) =>
                    wire.body = previous.body
        /\ (\A i \in 1..Len(Get(args, "content", << >>)) :
                Get(args, "content", << >>)[i] \in WhiteSpace) =>
              /\ wire.status = 400
              /\ wire.body = <<"Missing 'content' parameter">>
        /\ "type" \notin DOMAIN args =>
              \A i \in 1..Len(enc_calls) : enc_calls[i].encoder = "qr"

C9_Witness ==
    /\ Answered
    /\ InGenerate
    /\ resubmitted
    /\ previous.args # args
    /\ "type" \in DOMAIN previous.args
    /\ previous.args["type"] # args["type"]
    /\ "content" \in DOMAIN previous.args
    /\ Len(previous.args["content"]) = BARCODE_MAX_LENGTH + 2
    /\ Len(args["content"]) = BARCODE_MAX_LENGTH
    /\ previous.status = 200
    /\ wire.status = 200
    /\ Outcome.branch = <<"code128">>

\* The encoder calls of the request in flight: at most one, made only for an
\* input that validate_input accepts and that is the normalized form of the
\* parameters; Code128 only for 1..64 code points below 128, QR only for
\* 1..1000 code points.
EncoderDiscipline ==
    /\ Len(enc_calls) <= 1
    /\ enc_calls # << >> =>
          /\ is_valid
          /\ validate_input(content, generate_type)[1]
          /\ content = Strip(Get(args, "content", << >>))
          /\ generate_type = Lower(Get(args, "type", qrcode))
          /\ enc_calls[1].encoder = "code128" =>
                /\ generate_type = barcode
                /\ Len(content) \in 1..64
                /\ \A i \in 1..Len(content) : content[i] \in 0..127
          /\ enc_calls[1].encoder = "qr" =>
                /\ generate_type = qrcode
                /\ Len(content) \in 1..1000
    /\ wire # NoResponse <=> pc = "sent"

\* Within a request a failed encoder call is not followed by another call,
\* and a response that was sent is not followed by another response.
NoRetryNoSecondResponse ==
    \/ pc' \in {"idle", "received"}
    \/ /\ EncoderFailed => enc_calls' = enc_calls
       /\ wire # NoResponse => wire' = wire

\* C11 (as claimed): every /generate request makes at most one encoder call,
\* only on validated input within the encoder's range, and ends with a
\* response whose status is 200, 400 or 500.
C11_StatusAmong200_400_500 ==
    route = "/generate" =>
        /\ EncoderDiscipline
        /\ pc = "sent" => wire.status \in {200, 400, 500}

\* C11 (amended): every /generate request makes at most one encoder call,
\* only on validated input within the encoder's range, never a second call
\* after a failure, and ends with exactly one response, whose status is 200,
\* 400 or 500 when generate_code ran and 429 when the rate limiter refused
\* the request (then nothing was validated, buffered or encoded).
C11_EncodeOnceAnswerOnce ==
    /\ [](route = "/generate" =>
            /\ EncoderDiscipline
            /\ pc = "sent" =>
                  /\ wire.status \in {200, 400, 500, 429}
                  /\ wire.status = 429 => (enc_calls = << >> /\ buf = "none")
                  /\ wire.status = 200 => (enc_calls # << >> /\ ~EncoderFailed)
                  /\ EncoderFailed => wire.status = 500)
    /\ [][NoRetryNoSecondResponse]_vars

C11_Witness ==
    /\ Answered
    /\ InGenerate
    /\ Len(enc_calls) = 1
    /\ enc_calls[1].encoder = "code128"
    /\ EncoderFailed
    /\ Len(content) = BARCODE_MAX_LENGTH
    /\ wire.status = 500

====
